---- MODULE Spec2Model ----
(***************************************************************************)
(* Model of the sustainability calculator scripts src/cf_emissions.py,     *)
(* src/test.py and src/bau_emissions.py: the emissions calculator (BAU     *)
(* table, scenario percentages, savings) and the criteria normaliser and   *)
(* ranker ("Run Model").                                                   *)
(*                                                                         *)
(* Numbers.  The scripts compute in float64 (pandas / numpy).  The model   *)
(* evaluates the same expressions, in the same order, over exact rationals *)
(* <<n, d>> in lowest terms with d > 0; float rounding is not modelled.    *)
(* <<0, 0>> stands for NaN (a missing cell, or the result of 0/0).         *)
(*                                                                         *)
(* Specifications.  SpecEmissions follows one script run through the BAU   *)
(* and scenario sections, SpecCriteria one run through the criteria        *)
(* section and Run Model, SpecSession a browser session of successive      *)
(* runs that share st.session_state, SpecItems sessions that start from    *)
(* the default item table and add custom items, SpecNames one run with     *)
(* scenario names as edited in the description table.                      *)
(***************************************************************************)
EXTENDS Integers, Sequences, FiniteSets, TLC

\* ------------------------------------------------------------------ bounds
MaxItems == 2

MaxScenarios == 3

\* ------------------------------------------------------- rational numbers
Abs(i) == IF i < 0 THEN -i ELSE i

RECURSIVE GCD(_, _)
GCD(a, b) == IF b = 0 THEN a ELSE GCD(b, a % b)

NaN == <<0, 0>>

IsNaN(x) == x[2] = 0

Rat(n, d) ==
    IF d = 0 THEN NaN
    ELSE LET g == GCD(Abs(n), Abs(d))
             s == IF d < 0 THEN -1 ELSE 1
         IN  <<(s * n) \div g, (s * d) \div g>>

RInt(i) == <<i, 1>>

RAdd(x, y) == IF IsNaN(x) \/ IsNaN(y) THEN NaN
              ELSE Rat(x[1] * y[2] + y[1] * x[2], x[2] * y[2])

RSub(x, y) == IF IsNaN(x) \/ IsNaN(y) THEN NaN
              ELSE Rat(x[1] * y[2] - y[1] * x[2], x[2] * y[2])

RMul(x, y) == IF IsNaN(x) \/ IsNaN(y) THEN NaN
              ELSE Rat(x[1] * y[1], x[2] * y[2])

\* numpy float64 division: x / 0 is inf or nan (a warning, not an exception);
\* both are folded into NaN.
RDiv(x, y) == IF IsNaN(x) \/ IsNaN(y) THEN NaN
              ELSE Rat(x[1] * y[2], x[2] * y[1])

RLt(x, y) == x[1] * y[2] < y[1] * x[2]

RLe(x, y) == x[1] * y[2] <= y[1] * x[2]

\* Series.sum(): left to right, NaN entries skipped (skipna=True).
RECURSIVE SumSeq(_)
SumSeq(s) ==
    IF s = <<>> THEN RInt(0)
    ELSE LET rest == SumSeq(SubSeq(s, 1, Len(s) - 1))
             last == s[Len(s)]
         IN  IF IsNaN(last) THEN rest ELSE RAdd(rest, last)

\* ndarray.sum(): left to right, NaN propagates.
RECURSIVE NpSum(_)
NpSum(s) ==
    IF s = <<>> THEN RInt(0)
    ELSE RAdd(NpSum(SubSeq(s, 1, Len(s) - 1)), s[Len(s)])

\* Series.fillna(v)
FillNa(x, v) == IF IsNaN(x) THEN v ELSE x

\* pd.to_numeric(errors='coerce') on a numeric editor column: numbers are kept,
\* an empty cell (None) becomes NaN.
ToNumeric(x) == IF IsNaN(x) THEN NaN ELSE Rat(x[1], x[2])

\* --------------------------------------------------------------- constants
DaysPerYear == 365

DefaultPct == 100

Revisions == {"cf_emissions", "test", "bau_emissions"}

default_items ==
    {"Gas (kWh/day)", "Electricity (kWh/day)", "Nitrogen (m3/day)",
     "Hydrogen (m3/day)", "Argon (m3/day)", "Helium (m3/day)"}

\* ------------------------------------------------------------ input domains
\* Item names that occur in the modelled tables: one default item, one custom.
ItemNames == {"Gas (kWh/day)", "Steam"}

UsageVals == {RInt(0), RInt(1), RInt(2)}

FactorVals == {RInt(-1), RInt(2)}

\* Cells of the percentage editor: numbers (also below 0 and above 200) or empty.
PctCells == {RInt(-50), RInt(100), RInt(250), NaN}

RECURSIVE SeqsOfLen(_, _)
SeqsOfLen(S, n) ==
    IF n = 0 THEN {<<>>}
    ELSE {Append(s, x) : s \in SeqsOfLen(S, n - 1), x \in S}

SeqsUpTo(S, n) == UNION {SeqsOfLen(S, k) : k \in 0..n}

BauRows == [Item : ItemNames, Usage : UsageVals]

FactorTables == UNION {[D -> FactorVals] : D \in SUBSET ItemNames}

VARIABLES
    revision,           \* which script runs
    pc,                 \* position of the script run
    bau_data,           \* st.session_state.bau_data: rows (Item, Usage)
    bau_data_local,     \* the script's variable bau_data before the baseline
    emission_factors,   \* st.session_state.emission_factors: name -> factor
    bau_table,          \* bau_data_ordered with the computed columns
    total_daily_bau,
    total_annual_bau,
    scenario_desc,      \* "Scenario" column of edited_scenario_desc_df
    scenario_editor,    \* percentage table as returned by st.data_editor
    edited_scenario_df, \* the same table after to_numeric / fillna
    results,            \* rows of results_df
    selected_criteria,  \* the multiselect's list
    criteria_editor,    \* criteria table as returned by st.data_editor
    edited_criteria_df, \* st.session_state['edited_criteria_df']
    scaled_criteria_df, \* the normalised results table of Run Model
    run_status,         \* "none", "error" (st.error shown) or "ok"
    top_scenario,       \* scenarios announced as top-ranked (at most one)
    other_criteria,     \* names typed for the selected "Other" trends
    criteria_options,   \* keys of the criteria_options dictionary
    raised              \* the script run ended with an uncaught exception

emissionVars == <<bau_data, bau_data_local, emission_factors, bau_table, total_daily_bau,
                  total_annual_bau, scenario_editor, edited_scenario_df, results>>

criteriaVars == <<selected_criteria, criteria_editor, edited_criteria_df,
                  scaled_criteria_df, run_status, top_scenario, other_criteria,
                  criteria_options>>

vars == <<revision, pc, scenario_desc, emissionVars, criteriaVars, raised>>

\* ------------------------------------------------------------ BAU baseline
SeqMap(Op(_), s) == [i \in 1..Len(s) |-> Op(s[i])]

\* Series.map(dict): a name with no entry maps to NaN.
MapFactor(ef, name) == IF name \in DOMAIN ef THEN ef[name] ELSE NaN

\* Mutant: the fillna(0.0) after the lookup is left out.
FactorColumnNoFill(rev, ef, name) == MapFactor(ef, name)

\* bau_data["Item"].map(emission_factors).fillna(0.0); bau_emissions.py has
\* no fillna.
FactorColumn(rev, ef, name) ==
    IF rev = "bau_emissions" THEN MapFactor(ef, name)
    ELSE FillNa(MapFactor(ef, name), RInt(0))

\* One row of the BAU table with its computed columns.  bau_emissions.py
\* has no annual column (NaN here).
BauRow(rev, ef, row) ==
    LET factor == FactorColumn(rev, ef, row.Item)
        daily  == RMul(row.Usage, factor)
    IN  [Item   |-> row.Item,
         Usage  |-> row.Usage,
         Factor |-> factor,
         Daily  |-> daily,
         Annual |-> IF rev = "bau_emissions" THEN NaN
                    ELSE RMul(daily, RInt(DaysPerYear))]

IsDefault(row) == row.Item \in default_items

IsCustom(row) == row.Item \notin default_items

\* Mutant: the reordering keeps the default items only.
ReorderDropsCustom(rev, rows) ==
    IF rev = "cf_emissions" THEN SelectSeq(rows, IsDefault) ELSE rows

\* cf_emissions.py: default items first, then custom items.
Reorder(rev, rows) ==
    IF rev = "cf_emissions"
    THEN SelectSeq(rows, IsDefault) \o SelectSeq(rows, IsCustom)
    ELSE rows

BauTable(rev, ef, rows) ==
    Reorder(rev, [i \in 1..Len(rows) |-> BauRow(rev, ef, rows[i])])

DailyOf(row) == row.Daily

AnnualOf(row) == row.Annual

TotalDaily(table) == SumSeq(SeqMap(DailyOf, table))

\* Mutant: the baseline year has 360 days.
TotalAnnual360(rev, table) == RMul(TotalDaily(table), RInt(360))

TotalAnnual(rev, table) ==
    IF rev = "bau_emissions"
    THEN RMul(TotalDaily(table), RInt(DaysPerYear))
    ELSE SumSeq(SeqMap(AnnualOf, table))

\* The rows the baseline is computed from: cf_emissions.py reads the session
\* table again (st.session_state.bau_data.copy()); test.py and
\* bau_emissions.py go on with the script's variable bau_data.
BaselineRows(rev, session, local) ==
    IF rev = "cf_emissions" THEN session ELSE local

ComputeBaseline ==
    /\ pc = "bau"
    /\ bau_table' = BauTable(revision, emission_factors,
                             BaselineRows(revision, bau_data, bau_data_local))
    /\ total_daily_bau' = TotalDaily(bau_table')
    /\ total_annual_bau' = TotalAnnual(revision, bau_table')
    /\ pc' = IF revision = "bau_emissions" THEN "done" ELSE "scenarios"
    /\ UNCHANGED <<revision, scenario_desc, bau_data, bau_data_local,
                   emission_factors, scenario_editor, edited_scenario_df, results, criteriaVars,
                   raised>>

\* --------------------------------------------------------------- scenarios
\* Scenario names are token sequences; the percentage column of a scenario
\* is named f"{name} (%)".
PctSuffix == " (%)"

\* A cleared "Scenario" cell of the description editor: None.
MissingName == <<>>

\* f"{row['Scenario']} (%)"; None is formatted as "None".
ColumnName(name) ==
    IF name = MissingName THEN <<"None", PctSuffix>> ELSE Append(name, PctSuffix)

NotSuffix(tok) == tok # PctSuffix

\* col.replace(" (%)", ""): removes every occurrence.
ResultName(col) == SelectSeq(col, NotSuffix)

\* f"Scenario {i+1}"
DefaultScenarioName(i) ==
    <<CASE i = 1 -> "Scenario 1" [] i = 2 -> "Scenario 2"
        [] i = 3 -> "Scenario 3" [] OTHER -> "Scenario 4">>

\* Mutant: a missing percentage is taken as 0.
CoercePctFillsZero(cell) == FillNa(ToNumeric(cell), RInt(0))

\* Mutant: percentages are clamped to [0, 200].
CoercePctClamped(cell) ==
    LET p == FillNa(ToNumeric(cell), RInt(DefaultPct))
    IN  IF RLt(p, RInt(0)) THEN RInt(0)
        ELSE IF RLt(RInt(200), p) THEN RInt(200) ELSE p

\* pd.to_numeric(..., errors='coerce').fillna(100.0)
CoercePct(cell) == FillNa(ToNumeric(cell), RInt(DefaultPct))

CoerceColumn(col) ==
    [name |-> col.name, cells |-> SeqMap(CoercePct, col.cells)]

\* Mutant: the percentages are not divided by 100.
ScenarioDailyNoPercent(table, cells) ==
    NpSum([i \in 1..Len(table) |->
              RMul(RMul(table[i].Usage, cells[i]), table[i].Factor)])

\* (usage.values * usage_percentages * factor.values).sum()
ScenarioDaily(table, cells) ==
    NpSum([i \in 1..Len(table) |->
              RMul(RMul(table[i].Usage, RDiv(cells[i], RInt(100))),
                   table[i].Factor)])

\* Mutant: the saving is reported as a fraction, not as a percentage.
SavingPercentFraction(saving_kg, total_annual) ==
    IF total_annual # RInt(0) THEN RDiv(saving_kg, total_annual) ELSE RInt(0)

\* Mutant: no guard against a zero baseline.
SavingPercentUnguarded(saving_kg, total_annual) ==
    RMul(RDiv(saving_kg, total_annual), RInt(100))

SavingPercent(saving_kg, total_annual) ==
    IF total_annual # RInt(0)
    THEN RMul(RDiv(saving_kg, total_annual), RInt(100))
    ELSE RInt(0)

\* Mutant: the saving is scenario minus baseline.
ScenarioResultSavingReversed(table, total_annual, col) ==
    LET daily  == ScenarioDaily(table, col.cells)
        annual == RMul(daily, RInt(DaysPerYear))
        saving == RSub(annual, total_annual)
    IN  [Scenario  |-> ResultName(col.name),
         Daily     |-> daily,
         Annual    |-> annual,
         SavingKg  |-> saving,
         SavingPct |-> SavingPercent(saving, total_annual)]

ScenarioResult(table, total_annual, col) ==
    LET daily  == ScenarioDaily(table, col.cells)
        annual == RMul(daily, RInt(DaysPerYear))
        saving == RSub(total_annual, annual)
    IN  [Scenario  |-> ResultName(col.name),
         Daily     |-> daily,
         Annual    |-> annual,
         SavingKg  |-> saving,
         SavingPct |-> SavingPercent(saving, total_annual)]

\* The percentage editor: one column per row of the scenario description
\* table, one cell per BAU row.
EditorTables(names, nrows) ==
    {[k \in 1..Len(names) |-> [name |-> ColumnName(names[k]), cells |-> cs[k]]] :
        cs \in SeqsOfLen(SeqsOfLen(PctCells, nrows), Len(names))}

\* results_df.set_index("Scenario"): a KeyError when results is empty, the
\* DataFrame of an empty list having no columns.
ChartRaises(rows) == rows = <<>>

\* Two scenarios whose percentage columns have the same name: st.data_editor
\* refuses a table with duplicated column names (StreamlitAPIException), and
\* with experimental_data_editor edited_scenario_df[col] is then a DataFrame,
\* on which pd.to_numeric raises a TypeError.
EditorRaises(names) ==
    \E j, k \in 1..Len(names) :
        j # k /\ ColumnName(names[j]) = ColumnName(names[k])

ComputeScenarios ==
    /\ pc = "scenarios"
    /\ IF EditorRaises(scenario_desc)
       THEN /\ raised' = TRUE
            /\ UNCHANGED <<scenario_editor, edited_scenario_df, results>>
       ELSE /\ \E edited \in EditorTables(scenario_desc, Len(bau_table)) :
                  /\ scenario_editor' = edited
                  /\ edited_scenario_df' = SeqMap(CoerceColumn, edited)
                  /\ results' = [k \in 1..Len(edited) |->
                                    ScenarioResult(bau_table, total_annual_bau,
                                                   edited_scenario_df'[k])]
            /\ raised' = ChartRaises(results')
    /\ pc' = "done"
    /\ UNCHANGED <<revision, scenario_desc, bau_data, bau_data_local,
                   emission_factors, bau_table,
                   total_daily_bau, total_annual_bau, criteriaVars>>

\* ----------------------------------------------------------------- criteria
Technical == "Technical Feasibility"

Investment == "Initial investment"

ROI == "Return on Investment (ROI)(years)"

PositiveTrend == "Other - Positive Trend"

NegativeTrend == "Other - Negative Trend"

\* scale_criteria: cf_emissions.py also lists "Other - Negative Trend".
scale_criteria(rev) ==
    {Technical, "Supplier Reliability and Technology Readiness",
     "Implementation Complexity", "Scalability", "Maintenance Requirements",
     "Regulatory Compliance", "Risk for Workforce Safety", "Risk for Operations",
     "Impact on Product Quality", "Customer and Stakeholder Alignment",
     "Priority for our organisation"}
    \cup (IF rev = "cf_emissions" THEN {NegativeTrend} ELSE {})

criteria_to_normalize == <<ROI, Investment, PositiveTrend, NegativeTrend>>

InvertCriteria == {Investment, ROI, NegativeTrend}

\* Criteria offered by the multiselect that the model selects from, in the
\* order of criteria_options.
Selectable == <<Technical, Investment, ROI, PositiveTrend, NegativeTrend>>

\* The multiselect's result: nothing, one criterion or two.
Selections ==
    {<<>>} \cup {<<Selectable[i]>> : i \in DOMAIN Selectable}
           \cup {<<Selectable[i], Selectable[j]>> :
                    i \in DOMAIN Selectable, j \in DOMAIN Selectable}

Range(s) == {s[i] : i \in DOMAIN s}

NoDuplicates(s) == \A i, j \in DOMAIN s : i < j => s[i] # s[j]

\* Cells of the criteria editor: numbers (also outside [1, 10]) or empty.
CriteriaCells == {RInt(0), RInt(5), RInt(20), NaN}

ScenarioNames == {DefaultScenarioName(i) : i \in 1..MaxScenarios}

\* The "Scenario" column of the description editor: the default names of 1
\* to MaxScenarios scenarios, or fewer scenarios with the last name cleared.
ScenarioDescs ==
    {[i \in 1..n |-> DefaultScenarioName(i)] : n \in 1..MaxScenarios}
    \cup {[i \in 1..n |-> IF i = n THEN MissingName ELSE DefaultScenarioName(i)] :
             n \in 1..(MaxScenarios - 1)}

\* Keys of the criteria_options dictionary literal.
BaseOptions == scale_criteria("test") \cup {Investment, ROI, PositiveTrend, NegativeTrend}

OtherTrends == {PositiveTrend, NegativeTrend}

\* Names typed for user-declared criteria.
OtherNames == {"Noise level"}

\* The non-blank names typed under the selected "Other" trends: none, or one
\* name under one selected trend.
OtherDeclarations(selected) ==
    {<<>>} \cup {<<[trend |-> t, name |-> n]>> :
                    t \in Range(selected) \cap OtherTrends, n \in OtherNames}

\* criteria_options[other_crit_name.strip()] = ... for every typed name
WithOtherCriteria(options, declared) ==
    options \cup {declared[i].name : i \in DOMAIN declared}

\* Mutant: the session entry is kept while the table has the same scenarios
\* and columns, so the editor's new values are not saved.
SessionStoreKeepsOld(old, new) ==
    IF /\ Len(old) = Len(new)
       /\ \A r \in 1..Len(new) :
             /\ old[r].Scenario = new[r].Scenario
             /\ DOMAIN old[r].vals = DOMAIN new[r].vals
    THEN old
    ELSE new

\* st.session_state['edited_criteria_df'] = edited_criteria_df
SessionStore(old, new) == new

\* Series.clip(lower, upper)
Clip(x, lower, upper) ==
    IF IsNaN(x) THEN x
    ELSE IF RLt(x, lower) THEN lower
    ELSE IF RLt(upper, x) THEN upper
    ELSE x

\* pd.to_numeric(..., errors='coerce').fillna(1.0), then clip(1, 10) for the
\* columns in scale_criteria.
CoerceCriterion(rev, crit, cell) ==
    LET num == FillNa(ToNumeric(cell), RInt(1))
    IN  IF crit \in scale_criteria(rev) THEN Clip(num, RInt(1), RInt(10))
        ELSE num

CoerceCriteria(rev, table) ==
    [r \in 1..Len(table) |->
        [Scenario |-> table[r].Scenario,
         vals |-> [c \in DOMAIN table[r].vals |->
                      CoerceCriterion(rev, c, table[r].vals[c])]]]

CriteriaEditorTables(names, selected) ==
    {[r \in 1..Len(names) |-> [Scenario |-> names[r], vals |-> m[r]]] :
        m \in [1..Len(names) -> [Range(selected) -> CriteriaCells]]}

\* The script up to the Run Model button with criteria selected: the typed
\* "Other" names are added to criteria_options, the criteria table gets one
\* column per selected criterion, and the editor's table is converted and
\* saved to the session state.
StoreCriteria ==
    /\ pc = "criteria"
    /\ selected_criteria # <<>>
    /\ criteria_options' = WithOtherCriteria(BaseOptions, other_criteria)
    /\ \E edited \in CriteriaEditorTables(scenario_desc, selected_criteria) :
          /\ criteria_editor' = edited
          /\ edited_criteria_df' =
                SessionStore(edited_criteria_df, CoerceCriteria(revision, edited))
    /\ pc' = "run"
    /\ UNCHANGED <<revision, scenario_desc, emissionVars, selected_criteria,
                   scaled_criteria_df, run_status, top_scenario, other_criteria,
                   raised>>

\* No criterion selected: the criteria table and the Run Model button are
\* not shown.
SkipCriteria ==
    /\ pc = "criteria"
    /\ selected_criteria = <<>>
    /\ pc' = "done"
    /\ UNCHANGED <<revision, scenario_desc, emissionVars, criteriaVars, raised>>

\* np.min / np.max of a column
RECURSIVE MinOf(_)
MinOf(s) ==
    IF Len(s) = 1 THEN s[1]
    ELSE LET m == MinOf(SubSeq(s, 1, Len(s) - 1))
         IN  IF RLt(s[Len(s)], m) THEN s[Len(s)] ELSE m

RECURSIVE MaxOf(_)
MaxOf(s) ==
    IF Len(s) = 1 THEN s[1]
    ELSE LET m == MaxOf(SubSeq(s, 1, Len(s) - 1))
         IN  IF RLt(m, s[Len(s)]) THEN s[Len(s)] ELSE m

\* Mutant: a tie always gives 10.
TieValueAlwaysTen(min_val) == RInt(10)

\* np.ones_like(values) * 10 if min_val != 0 else np.zeros_like(values)
TieValue(min_val) == IF min_val # RInt(0) THEN RInt(10) ELSE RInt(0)

\* 1 + 9 * (values - min_val) / (max_val - min_val)
ScaleUp(v, min_val, max_val) ==
    RAdd(RInt(1), RDiv(RMul(RInt(9), RSub(v, min_val)), RSub(max_val, min_val)))

\* Mutant: the reverse scale spans 10 instead of 9.
ScaleDownSpanTen(v, min_val, max_val) ==
    RSub(RInt(10), RDiv(RMul(RInt(10), RSub(v, min_val)), RSub(max_val, min_val)))

\* 10 - 9 * (values - min_val) / (max_val - min_val)
ScaleDown(v, min_val, max_val) ==
    RSub(RInt(10), RDiv(RMul(RInt(9), RSub(v, min_val)), RSub(max_val, min_val)))

\* Mutant: the positive trend is rescaled with the reverse scale.
PositiveTrendReversed(values) ==
    LET min_val == MinOf(values)
        max_val == MaxOf(values)
    IN  IF max_val = min_val
        THEN [i \in 1..Len(values) |-> TieValue(min_val)]
        ELSE [i \in 1..Len(values) |-> ScaleDown(values[i], min_val, max_val)]

PositiveTrendScaled(values) ==
    LET min_val == MinOf(values)
        max_val == MaxOf(values)
    IN  IF max_val = min_val
        THEN [i \in 1..Len(values) |-> TieValue(min_val)]
        ELSE [i \in 1..Len(values) |-> ScaleUp(values[i], min_val, max_val)]

NegativeTrendScaled(values) ==
    LET min_val == MinOf(values)
        max_val == MaxOf(values)
    IN  IF max_val = min_val
        THEN [i \in 1..Len(values) |-> TieValue(min_val)]
        ELSE [i \in 1..Len(values) |-> ScaleDown(values[i], min_val, max_val)]

ROIScaled(values) ==
    LET min_val == MinOf(values)
        max_val == MaxOf(values)
    IN  IF max_val = min_val
        THEN [i \in 1..Len(values) |-> TieValue(min_val)]
        ELSE [i \in 1..Len(values) |-> ScaleDown(values[i], min_val, max_val)]

InvestmentScaled(values) ==
    LET min_val == MinOf(values)
        max_val == MaxOf(values)
    IN  IF max_val = min_val
        THEN [i \in 1..Len(values) |-> TieValue(min_val)]
        ELSE [i \in 1..Len(values) |-> ScaleDown(values[i], min_val, max_val)]

\* Series.values: the column as an array of evaluated numbers.
Values(s) == <<>> \o s

Column(table, crit) == Values([r \in 1..Len(table) |-> table[r].vals[crit]])

\* Mutant: every column is min-max rescaled, the 1-10 scale columns too.
ScaledColumnRescalesAll(table, crit) ==
    LET values == Column(table, crit)
    IN  Values(CASE crit \in {NegativeTrend, ROI, Investment} -> NegativeTrendScaled(values)
                 [] OTHER -> PositiveTrendScaled(values))

\* The loop over criteria_to_normalize: a listed criterion that is a column
\* of the table is rescaled, every other column is left as it is.
ScaledColumn(table, crit) ==
    LET values == Column(table, crit)
    IN  Values(CASE crit = PositiveTrend -> PositiveTrendScaled(values)
                 [] crit = NegativeTrend -> NegativeTrendScaled(values)
                 [] crit = ROI           -> ROIScaled(values)
                 [] crit = Investment    -> InvestmentScaled(values)
                 [] OTHER                -> values)

\* scaled_criteria_df[selected_criteria].sum(axis=1), for one row
TotalScore(cols, r) == SumSeq([k \in 1..Len(cols) |-> cols[k][r]])

\* Mutant: the second pass reverses the scale of the totals.
NormalizedScoreReversed(total, min_score, max_score) ==
    IF max_score # min_score THEN ScaleDown(total, min_score, max_score)
    ELSE RInt(5)

\* Mutant: no guard against equal totals.
NormalizedScoreUnguarded(total, min_score, max_score) ==
    ScaleUp(total, min_score, max_score)

\* Mutant: equal totals are given 10, as a tied criterion column is.
NormalizedScoreTieTen(total, min_score, max_score) ==
    IF max_score # min_score THEN ScaleUp(total, min_score, max_score)
    ELSE RInt(10)

\* 1 + 9 * (total - min) / (max - min), or 5 when all totals are equal
NormalizedScore(total, min_score, max_score) ==
    IF max_score # min_score THEN ScaleUp(total, min_score, max_score)
    ELSE RInt(5)

\* Mutant: rank(method='first'), ties are broken by row position.
RankFirst(scores, r) ==
    1 + Cardinality({q \in 1..Len(scores) :
                        RLt(scores[r], scores[q]) \/ (q < r /\ scores[q] = scores[r])})

\* Mutant: dense ranking, the rank after a tied group is not skipped.
RankDense(scores, r) ==
    1 + Cardinality({scores[q] : q \in {q \in 1..Len(scores) : RLt(scores[r], scores[q])}})

\* Series.rank(method='min', ascending=False).astype(int)
RankOf(scores, r) == 1 + Cardinality({q \in 1..Len(scores) : RLt(scores[r], scores[q])})

IndexOf(selected, crit) == CHOOSE k \in 1..Len(selected) : selected[k] = crit

ScaledTable(table, selected) ==
    LET cols   == Values([k \in 1..Len(selected) |-> ScaledColumn(table, selected[k])])
        totals == Values([r \in 1..Len(table) |-> TotalScore(cols, r)])
        lo     == MinOf(totals)
        hi     == MaxOf(totals)
        norm   == Values([r \in 1..Len(table) |-> NormalizedScore(totals[r], lo, hi)])
    IN  [r \in 1..Len(table) |->
            [Scenario   |-> table[r].Scenario,
             vals       |-> [c \in Range(selected) |-> cols[IndexOf(selected, c)][r]],
             Total      |-> totals[r],
             Normalized |-> norm[r],
             Rank       |-> RankOf(norm, r)]]

\* Mutant: the check for unfilled values never finds one.
AnyNullNever(table) == FALSE

\* DataFrame.isnull().values.any(): over every column, "Scenario" included.
AnyNull(table) ==
    \E r \in 1..Len(table) :
        \/ table[r].Scenario = MissingName
        \/ \E c \in DOMAIN table[r].vals : IsNaN(table[r].vals[c])

\* .rank(...).astype(int): an IntCastingNaNError when a score is NaN.
RankRaises(scaled) == \E r \in 1..Len(scaled) : IsNaN(scaled[r].Normalized)

IsTop(row) == row.Rank = 1

\* Mutant: the last of the rank-1 scenarios is announced.
TopScenarioLast(scaled) ==
    LET top == SelectSeq(scaled, IsTop)
    IN  IF Len(top) > 0 THEN <<top[Len(top)].Scenario>> ELSE <<>>

\* scaled_criteria_df.loc[Rank == 1, 'Scenario'].values, of which [0] is shown
TopScenario(scaled) ==
    LET top == SelectSeq(scaled, IsTop)
    IN  IF Len(top) > 0 THEN <<top[1].Scenario>> ELSE <<>>

\* Mutant: Run Model rescales the session's matrix in place.
SessionAfterRunAliased(stored, scaled) ==
    [r \in 1..Len(stored) |-> [Scenario |-> scaled[r].Scenario, vals |-> scaled[r].vals]]

\* scaled_criteria_df = st.session_state.edited_criteria_df.copy(): the
\* rescaling writes to the copy, the session keeps the matrix it held.
SessionAfterRun(stored, scaled) == stored

\* The Run Model button is offered and clicked.
RunModel ==
    /\ pc = "run"
    /\ selected_criteria # <<>>
    /\ edited_criteria_df # <<>>
    /\ IF AnyNull(edited_criteria_df)
       THEN /\ run_status' = "error"
            /\ UNCHANGED <<edited_criteria_df, scaled_criteria_df, top_scenario, raised>>
       ELSE \E scaled \in {ScaledTable(edited_criteria_df, selected_criteria)} :
                /\ edited_criteria_df' = SessionAfterRun(edited_criteria_df, scaled)
                /\ IF RankRaises(scaled)
                   THEN /\ raised' = TRUE
                        /\ UNCHANGED <<scaled_criteria_df, top_scenario, run_status>>
                   ELSE /\ scaled_criteria_df' = scaled
                        /\ top_scenario' = TopScenario(scaled)
                        /\ run_status' = "ok"
                        /\ UNCHANGED raised
    /\ pc' = "done"
    /\ UNCHANGED <<revision, scenario_desc, emissionVars, selected_criteria,
                   criteria_editor, other_criteria, criteria_options>>

\* The Run Model button is not clicked in this script run.
NoRunModel ==
    /\ pc = "run"
    /\ pc' = "done"
    /\ UNCHANGED <<revision, scenario_desc, emissionVars, criteriaVars, raised>>

\* ------------------------------------------------- emissions specification
NoCriteria ==
    /\ selected_criteria = <<>>
    /\ criteria_editor = <<>>
    /\ edited_criteria_df = <<>>
    /\ scaled_criteria_df = <<>>
    /\ run_status = "none"
    /\ top_scenario = <<>>
    /\ other_criteria = <<>>
    /\ criteria_options = BaseOptions

\* The session table and factor dictionary as the widgets and a loaded
\* progress file leave them; bau_emissions.py gives every row a factor.
\* The scenario description table is the default one (num_scenarios = 1).
InitEmissions ==
    /\ revision \in Revisions
    /\ pc = "bau"
    /\ bau_data \in SeqsUpTo(BauRows, MaxItems)
    /\ bau_data_local = bau_data
    /\ emission_factors \in FactorTables
    /\ revision = "bau_emissions" =>
          \A i \in 1..Len(bau_data) : bau_data[i].Item \in DOMAIN emission_factors
    /\ scenario_desc = <<DefaultScenarioName(1)>>
    /\ bau_table = <<>>
    /\ total_daily_bau = RInt(0)
    /\ total_annual_bau = RInt(0)
    /\ scenario_editor = <<>>
    /\ edited_scenario_df = <<>>
    /\ results = <<>>
    /\ NoCriteria
    /\ raised = FALSE

NextEmissions == ComputeBaseline \/ ComputeScenarios

SpecEmissions == InitEmissions /\ [][NextEmissions]_vars

\* -------------------------------------------------- criteria specification
NoEmissions ==
    /\ bau_data = <<>>
    /\ bau_data_local = <<>>
    /\ emission_factors = <<>>
    /\ bau_table = <<>>
    /\ total_daily_bau = RInt(0)
    /\ total_annual_bau = RInt(0)
    /\ scenario_editor = <<>>
    /\ edited_scenario_df = <<>>
    /\ results = <<>>

\* The script at the criteria section: cf_emissions.py or test.py, the
\* scenario description table and the multiselect as the user left them.
InitCriteria ==
    /\ revision \in {"cf_emissions", "test"}
    /\ pc = "criteria"
    /\ scenario_desc \in ScenarioDescs
    /\ selected_criteria \in {s \in Selections : NoDuplicates(s)}
    /\ criteria_editor = <<>>
    /\ edited_criteria_df = <<>>
    /\ scaled_criteria_df = <<>>
    /\ run_status = "none"
    /\ top_scenario = <<>>
    /\ other_criteria = <<>>
    /\ criteria_options = BaseOptions
    /\ raised = FALSE
    /\ NoEmissions

NextCriteria == StoreCriteria \/ SkipCriteria \/ RunModel \/ NoRunModel

SpecCriteria == InitCriteria /\ [][NextCriteria]_vars

\* ------------------------------------------------- session specification
\* A browser session: script runs follow each other and st.session_state
\* (bau_data, emission_factors, edited_criteria_df) is carried from one run
\* to the next, while the script's local tables are rebuilt.  A run is
\* followed through its emissions half or through its criteria half; the
\* halves share only the scenario description table.
CustomFactorVals == {RInt(3)}

\* The custom-item widgets: no name typed, or a name, a factor and a usage.
CustomInputs ==
    {<<>>} \cup {<<[Item |-> n, Factor |-> f, Usage |-> u]>> :
                    n \in ItemNames, f \in CustomFactorVals, u \in UsageVals}

Items(rows) == {rows[i].Item : i \in 1..Len(rows)}

\* bau_data.loc[i, "Daily Usage (Units)"] = st.number_input(...)
WithUsage(rows, i, usage) ==
    [j \in 1..Len(rows) |->
        IF j = i THEN [Item |-> rows[j].Item, Usage |-> usage] ELSE rows[j]]

\* A name left empty in the text input.
BlankName == ""

\* pd.concat([bau_data, new_row], ignore_index=True) and
\* emission_factors[item_name] = factor: a new last row, and the entry of
\* that name set, whether or not the name had one.
AppendCustomItem(rows, ef, custom) ==
    [data    |-> Append(rows, [Item |-> custom[1].Item, Usage |-> custom[1].Usage]),
     factors |-> [n \in (DOMAIN ef) \cup {custom[1].Item} |->
                     IF n = custom[1].Item THEN custom[1].Factor ELSE ef[n]]]

\* cf_emissions.py: a named custom item that is not yet in the table is
\* appended to the session table and its factor is recorded; a name that is
\* already there is refused with a warning.
AddCustomItem(rows, ef, custom) ==
    IF custom = <<>> \/ custom[1].Item = BlankName \/ custom[1].Item \in Items(rows)
    THEN [data |-> rows, factors |-> ef]
    ELSE AppendCustomItem(rows, ef, custom)

\* The next script run of a session that showed emissions: one usage input
\* is changed, or (cf_emissions.py) a custom item is entered.
RerunEmissions ==
    /\ pc = "done"
    /\ results # <<>>
    /\ revision \in {"cf_emissions", "test"}
    /\ \/ /\ \E i \in 1..Len(bau_data) : \E usage \in UsageVals :
                 bau_data' = WithUsage(bau_data, i, usage)
          /\ UNCHANGED emission_factors
       \/ /\ revision = "cf_emissions"
          /\ \E custom \in CustomInputs :
                /\ custom # <<>>
                /\ Len(bau_data) < MaxItems \/ custom[1].Item \in Items(bau_data)
                /\ bau_data' = AddCustomItem(bau_data, emission_factors, custom).data
                /\ emission_factors' =
                      AddCustomItem(bau_data, emission_factors, custom).factors
    /\ bau_data_local' = bau_data'
    /\ bau_table' = <<>>
    /\ total_daily_bau' = RInt(0)
    /\ total_annual_bau' = RInt(0)
    /\ scenario_editor' = <<>>
    /\ edited_scenario_df' = <<>>
    /\ results' = <<>>
    /\ raised' = FALSE
    /\ pc' = "bau"
    /\ UNCHANGED <<revision, scenario_desc, criteriaVars>>

SessionDescs == {d \in ScenarioDescs : Len(d) < MaxScenarios}

SessionSelections == {s \in Selections : Len(s) <= 1}

\* The next script run of a session at the criteria section: the number of
\* scenarios, the selection and the typed "Other" names are as the user now
\* has them; the stored criteria table is still in the session state.
RerunCriteria ==
    /\ pc = "done"
    /\ results = <<>>
    /\ revision \in {"cf_emissions", "test"}
    /\ scenario_desc' \in SessionDescs
    /\ selected_criteria' \in SessionSelections
    /\ other_criteria' \in OtherDeclarations(selected_criteria')
    /\ criteria_editor' = <<>>
    /\ scaled_criteria_df' = <<>>
    /\ run_status' = "none"
    /\ top_scenario' = <<>>
    /\ criteria_options' = BaseOptions
    /\ raised' = FALSE
    /\ pc' = "criteria"
    /\ UNCHANGED <<revision, emissionVars, edited_criteria_df>>

InitSessionCriteria ==
    /\ revision \in {"cf_emissions", "test"}
    /\ pc = "criteria"
    /\ scenario_desc \in SessionDescs
    /\ selected_criteria \in SessionSelections
    /\ other_criteria \in OtherDeclarations(selected_criteria)
    /\ criteria_editor = <<>>
    /\ edited_criteria_df = <<>>
    /\ scaled_criteria_df = <<>>
    /\ run_status = "none"
    /\ top_scenario = <<>>
    /\ criteria_options = BaseOptions
    /\ raised = FALSE
    /\ NoEmissions

InitSession == InitEmissions \/ InitSessionCriteria

\* ---------------------------------------------- custom items specification
\* Sessions that start from the default item table and add custom items
\* over several script runs.  The six default items are represented by the
\* first of them, with usage 0.0; the default factors are kept to two
\* decimals; one custom item is entered per run (num_custom_items = 1).
MaxRows == 3

DefaultTable == <<[Item |-> "Gas (kWh/day)", Usage |-> RInt(0)]>>

default_factors ==
    [n \in default_items |->
        CASE n = "Gas (kWh/day)"         -> Rat(18, 100)
          [] n = "Electricity (kWh/day)" -> Rat(21, 100)
          [] n = "Nitrogen (m3/day)"     -> Rat(9, 100)
          [] n = "Hydrogen (m3/day)"     -> Rat(108, 100)
          [] n = "Argon (m3/day)"        -> Rat(634, 100)
          [] OTHER                       -> Rat(66, 100)]

\* Factors typed for a custom item, or returned for it by
\* get_emission_factor_from_openai.
ItemFactorVals == {RInt(1), RInt(3)}

\* The custom-item widgets: the checkbox not ticked, or a name (possibly
\* empty), a factor and a usage.
ItemInputs ==
    {<<>>} \cup {<<[Item |-> n, Factor |-> f, Usage |-> RInt(1)]>> :
                    n \in ItemNames \cup {BlankName}, f \in ItemFactorVals}

\* test.py: st.error and st.stop() at a custom item without a name.
ButtonStops(rev, custom, clicked) ==
    rev = "test" /\ clicked /\ custom # <<>> /\ custom[1].Item = BlankName

\* The custom-items section of the three scripts.  cf_emissions.py refuses
\* empty and known names; test.py appends when its button is clicked, with
\* no test for a known name; bau_emissions.py appends whatever is entered.
CustomItems(rev, rows, ef, custom, clicked) ==
    CASE rev = "cf_emissions" -> AddCustomItem(rows, ef, custom)
      [] rev = "test" ->
            IF clicked /\ custom # <<>> /\ custom[1].Item # BlankName
            THEN AppendCustomItem(rows, ef, custom)
            ELSE [data |-> rows, factors |-> ef]
      [] OTHER ->
            IF custom # <<>> THEN AppendCustomItem(rows, ef, custom)
            ELSE [data |-> rows, factors |-> ef]

\* The table a script run starts from: the session table, or in
\* bau_emissions.py the default items again (with their usage inputs).
StartRows(rev, rows) ==
    IF rev = "bau_emissions" THEN SubSeq(rows, 1, Len(DefaultTable)) ELSE rows

\* bau_emissions.py builds its emission_factors dictionary in every run.
StartFactors(rev, ef) == IF rev = "bau_emissions" THEN default_factors ELSE ef

\* The next script run up to the baseline computation: the usage inputs are
\* written into the table, then the custom-items section runs.  In test.py
\* the variable bau_data still names the table from before the append.
RerunItems ==
    /\ pc = "done"
    /\ \E i \in 1..Len(StartRows(revision, bau_data)), usage \in UsageVals,
          custom \in ItemInputs, clicked \in BOOLEAN :
          \E edited \in {WithUsage(StartRows(revision, bau_data), i, usage)} :
             \E added \in {CustomItems(revision, edited,
                                       StartFactors(revision, emission_factors),
                                       custom, clicked)} :
                /\ Len(added.data) <= MaxRows
                /\ bau_data' = added.data
                /\ emission_factors' = added.factors
                /\ bau_data_local' = IF revision = "test" THEN edited ELSE added.data
                /\ pc' = IF ButtonStops(revision, custom, clicked) THEN "done" ELSE "bau"
    /\ bau_table' = <<>>
    /\ total_daily_bau' = RInt(0)
    /\ total_annual_bau' = RInt(0)
    /\ scenario_editor' = <<>>
    /\ edited_scenario_df' = <<>>
    /\ results' = <<>>
    /\ raised' = FALSE
    /\ UNCHANGED <<revision, scenario_desc, criteriaVars>>

InitItems ==
    /\ revision \in Revisions
    /\ pc = "bau"
    /\ bau_data = DefaultTable
    /\ bau_data_local = bau_data
    /\ emission_factors = default_factors
    /\ scenario_desc = <<DefaultScenarioName(1)>>
    /\ bau_table = <<>>
    /\ total_daily_bau = RInt(0)
    /\ total_annual_bau = RInt(0)
    /\ scenario_editor = <<>>
    /\ edited_scenario_df = <<>>
    /\ results = <<>>
    /\ NoCriteria
    /\ raised = FALSE

NextItems == ComputeBaseline \/ ComputeScenarios \/ RerunItems

SpecItems == InitItems /\ [][NextItems]_vars

NextSession ==
    \/ ComputeBaseline
    \/ ComputeScenarios
    \/ RerunEmissions
    \/ StoreCriteria
    \/ SkipCriteria
    \/ RunModel
    \/ NoRunModel
    \/ RerunCriteria

SpecSession == InitSession /\ [][NextSession]_vars

\* ===================================================== emissions properties
\* The factor of an item as the claims state it: its entry in the
\* emission-factor table, 0 when it has none.
ItemFactor(name) ==
    IF name \in DOMAIN emission_factors THEN emission_factors[name] ELSE RInt(0)

HasFactor(row) == row.Item \in DOMAIN emission_factors

Numeric(cells) == \A i \in 1..Len(cells) : ~IsNaN(cells[i])

RECURSIVE AddAll(_)
AddAll(s) == IF s = <<>> THEN RInt(0) ELSE RAdd(s[1], AddAll(Tail(s)))

\* sum over the rows of usage_i * pct_i * factor_i / 100
ExpectedDaily(rows, cells) ==
    AddAll([i \in 1..Len(rows) |->
               RDiv(RMul(RMul(rows[i].Usage, cells[i]), ItemFactor(rows[i].Item)),
                    RInt(100))])

ScenariosDone == pc = "done" /\ revision # "bau_emissions"

BaselineDone == pc # "bau"

\* C1: for every item list and every numeric percentage vector the scenario
\* row has daily = sum(usage_i * pct_i/100 * factor_i), annual = daily * 365,
\* saving_kg = baseline annual - scenario annual, and, when the baseline
\* annual is not 0, saving_pct = saving_kg / baseline annual * 100.
C1_ScenarioFormula ==
    ScenariosDone =>
        \A k \in 1..Len(results) :
            Numeric(scenario_editor[k].cells) =>
                LET r == results[k]
                IN  /\ r.Daily = ExpectedDaily(bau_table, scenario_editor[k].cells)
                    /\ r.Annual = RMul(r.Daily, RInt(365))
                    /\ r.SavingKg = RSub(total_annual_bau, r.Annual)
                    /\ total_annual_bau # RInt(0) =>
                          r.SavingPct = RDiv(RMul(r.SavingKg, RInt(100)),
                                             total_annual_bau)

C1_Witness ==
    /\ ScenariosDone
    /\ Len(bau_table) = 2
    /\ \E k \in 1..Len(results) :
          /\ Numeric(scenario_editor[k].cells)
          /\ scenario_editor[k].cells[1] # scenario_editor[k].cells[2]
          /\ bau_table[1].Daily # RInt(0)
          /\ bau_table[2].Daily # RInt(0)
          /\ total_annual_bau # RInt(0)
          /\ results[k].SavingPct # RInt(0)
          /\ results[k].Daily # RInt(0)

AllHundred(cells) == \A i \in 1..Len(cells) : cells[i] = RInt(100)

\* C2: a scenario whose percentage is 100 for every item has annual
\* emissions equal to the baseline annual emissions, saving_kg = 0 and
\* saving_pct = 0.
C2_HundredPercentIsBaseline ==
    ScenariosDone =>
        \A k \in 1..Len(results) :
            AllHundred(scenario_editor[k].cells) =>
                /\ results[k].Annual = total_annual_bau
                /\ results[k].SavingKg = RInt(0)
                /\ results[k].SavingPct = RInt(0)

C2_Witness ==
    /\ ScenariosDone
    /\ Len(bau_table) = 2
    /\ bau_table[1].Daily # RInt(0)
    /\ bau_table[2].Daily # RInt(0)
    /\ total_annual_bau # RInt(0)
    /\ \E k \in 1..Len(results) : AllHundred(scenario_editor[k].cells)

\* C3: whenever the baseline annual total is 0, every scenario's saving
\* percentage is the number 0 (not the NaN or infinity of a division by 0),
\* whatever its percentages and its own emissions are.
C3_ZeroBaselineZeroPercent ==
    ScenariosDone /\ total_annual_bau = RInt(0) =>
        \A k \in 1..Len(results) : results[k].SavingPct = RInt(0)

C3_Witness ==
    /\ ScenariosDone
    /\ total_annual_bau = RInt(0)
    /\ \E k \in 1..Len(results) :
          /\ results[k].Annual # RInt(0)
          /\ results[k].SavingKg # RInt(0)

\* C4: each BAU row has daily = usage * factor and annual = daily * 365; the
\* daily and annual totals are the sums of these over all items of the
\* session table, and total annual = 365 * total daily.  (bau_emissions.py
\* has no per-item annual column.)
C4_BaselineFormula ==
    BaselineDone =>
        /\ Len(bau_table) = Len(bau_data)
        /\ \A i \in 1..Len(bau_table) :
              /\ bau_table[i].Daily =
                    RMul(bau_table[i].Usage, ItemFactor(bau_table[i].Item))
              /\ revision # "bau_emissions" =>
                    bau_table[i].Annual = RMul(bau_table[i].Daily, RInt(365))
        /\ total_daily_bau =
              AddAll([i \in 1..Len(bau_data) |->
                         RMul(bau_data[i].Usage, ItemFactor(bau_data[i].Item))])
        /\ total_annual_bau =
              AddAll([i \in 1..Len(bau_data) |->
                         RMul(RMul(bau_data[i].Usage, ItemFactor(bau_data[i].Item)),
                              RInt(365))])
        /\ total_annual_bau = RMul(RInt(365), total_daily_bau)

C4_Witness ==
    /\ BaselineDone
    /\ revision = "cf_emissions"
    /\ Len(bau_data) = 2
    /\ bau_data[1].Item \notin default_items
    /\ bau_data[2].Item \in default_items
    /\ bau_table[1].Daily # RInt(0)
    /\ bau_table[2].Daily # RInt(0)
    /\ bau_table[1].Daily # bau_table[2].Daily
    /\ total_daily_bau # RInt(0)

KnownRows(rows) == SelectSeq(rows, HasFactor)

KnownCells(rows, cells) ==
    LET idx == SelectSeq([i \in 1..Len(rows) |-> i], LAMBDA i : HasFactor(rows[i]))
    IN  [j \in 1..Len(idx) |-> cells[idx[j]]]

\* C5: an item with no entry in the emission-factor table has factor 0; its
\* daily and annual emissions are 0, the baseline totals and every
\* scenario's emissions are those of the other items alone, and every one of
\* these is a number.
C5_UnknownItemIsZero ==
    /\ BaselineDone =>
          /\ \A i \in 1..Len(bau_table) :
                ~HasFactor(bau_table[i]) =>
                    /\ bau_table[i].Factor = RInt(0)
                    /\ bau_table[i].Daily = RInt(0)
                    /\ revision # "bau_emissions" => bau_table[i].Annual = RInt(0)
          /\ total_daily_bau =
                AddAll([i \in 1..Len(KnownRows(bau_data)) |->
                           RMul(KnownRows(bau_data)[i].Usage,
                                emission_factors[KnownRows(bau_data)[i].Item])])
          /\ ~IsNaN(total_daily_bau)
          /\ ~IsNaN(total_annual_bau)
    /\ ScenariosDone =>
          \A k \in 1..Len(results) :
              /\ results[k].Daily =
                    ExpectedDaily(KnownRows(bau_table),
                                  KnownCells(bau_table, edited_scenario_df[k].cells))
              /\ ~IsNaN(results[k].Annual)
              /\ ~IsNaN(results[k].SavingPct)

C5_Witness ==
    /\ ScenariosDone
    /\ \E i, j \in 1..Len(bau_table) :
          /\ ~HasFactor(bau_table[i])
          /\ bau_table[i].Usage # RInt(0)
          /\ HasFactor(bau_table[j])
          /\ bau_table[j].Daily # RInt(0)
          /\ results[1].Daily # RInt(0)

OutOfRange(cell) ==
    ~IsNaN(cell) /\ (RLt(cell, RInt(0)) \/ RLt(RInt(200), cell))

\* C6: a numeric percentage below 0 or above 200 is used exactly as entered:
\* the converted table holds the entered number and the scenario's daily
\* emissions are computed with it.
C6_PercentNotClamped ==
    ScenariosDone =>
        \A k \in 1..Len(results) :
            /\ \A i \in 1..Len(bau_table) :
                  OutOfRange(scenario_editor[k].cells[i]) =>
                      edited_scenario_df[k].cells[i] = scenario_editor[k].cells[i]
            /\ (Numeric(scenario_editor[k].cells)
                  /\ \E i \in 1..Len(bau_table) :
                         OutOfRange(scenario_editor[k].cells[i])) =>
                  RMul(results[k].Daily, RInt(100)) =
                      AddAll([i \in 1..Len(bau_table) |->
                                 RMul(RMul(bau_table[i].Usage,
                                           scenario_editor[k].cells[i]),
                                      ItemFactor(bau_table[i].Item))])

C6_Witness ==
    /\ ScenariosDone
    /\ Len(bau_table) = 2
    /\ Numeric(scenario_editor[1].cells)
    /\ RLt(scenario_editor[1].cells[1], RInt(0))
    /\ RLt(RInt(200), scenario_editor[1].cells[2])
    /\ bau_table[1].Daily # RInt(0)
    /\ bau_table[2].Daily # RInt(0)

\* ====================================================== criteria properties
RunModelDone == pc = "done" /\ run_status = "ok"

Selected(crit) == crit \in Range(selected_criteria)

\* The column of a criterion as entered in the editor, as stored in the
\* session state (what Run Model reads), and as Run Model rescaled it.
Entered(crit) == [r \in 1..Len(criteria_editor) |-> criteria_editor[r].vals[crit]]

Stored(crit) == [r \in 1..Len(edited_criteria_df) |-> edited_criteria_df[r].vals[crit]]

Scaled(crit) == [r \in 1..Len(scaled_criteria_df) |-> scaled_criteria_df[r].vals[crit]]

Least(col) == CHOOSE x \in Range(col) : \A y \in Range(col) : RLe(x, y)

Greatest(col) == CHOOSE x \in Range(col) : \A y \in Range(col) : RLe(y, x)

AllEqual(col) == \A i, j \in 1..Len(col) : col[i] = col[j]

\* 9 * (v - min) / (max - min) over a column
Share(col, v) ==
    RDiv(RMul(RInt(9), RSub(v, Least(col))), RSub(Greatest(col), Least(col)))

\* C7: for every invert criterion whose entered values are numbers and not
\* all equal, each entered value v is mapped to 10 - 9*(v - min)/(max - min)
\* with min and max over the entered values, so the smallest entered value
\* gets 10 and the largest gets 1.
C7_InvertFormula ==
    RunModelDone =>
        \A c \in InvertCriteria :
            (Selected(c) /\ Numeric(Entered(c)) /\ ~AllEqual(Entered(c))) =>
                \A r \in 1..Len(scaled_criteria_df) :
                    /\ Scaled(c)[r] = RSub(RInt(10), Share(Entered(c), Entered(c)[r]))
                    /\ Entered(c)[r] = Least(Entered(c)) => Scaled(c)[r] = RInt(10)
                    /\ Entered(c)[r] = Greatest(Entered(c)) => Scaled(c)[r] = RInt(1)

\* C8: for the positive-trend criterion whose entered values are not all
\* equal, each value v is mapped to 1 + 9*(v - min)/(max - min), so the
\* smallest value gets 1 and the largest gets 10.
C8_PositiveTrendFormula ==
    (RunModelDone /\ Selected(PositiveTrend) /\ Numeric(Entered(PositiveTrend))
        /\ ~AllEqual(Entered(PositiveTrend))) =>
            \A r \in 1..Len(scaled_criteria_df) :
                LET v == Entered(PositiveTrend)[r]
                IN  /\ Scaled(PositiveTrend)[r] =
                          RAdd(RInt(1), Share(Entered(PositiveTrend), v))
                    /\ v = Least(Entered(PositiveTrend)) =>
                          Scaled(PositiveTrend)[r] = RInt(1)
                    /\ v = Greatest(Entered(PositiveTrend)) =>
                          Scaled(PositiveTrend)[r] = RInt(10)

C8_Witness ==
    /\ RunModelDone
    /\ Selected(PositiveTrend)
    /\ \E r \in 1..Len(scaled_criteria_df) :
          /\ RLt(RInt(1), Scaled(PositiveTrend)[r])
          /\ RLt(Scaled(PositiveTrend)[r], RInt(10))
    /\ \E r \in 1..Len(scaled_criteria_df) : Scaled(PositiveTrend)[r] = RInt(1)
    /\ \E r \in 1..Len(scaled_criteria_df) : Scaled(PositiveTrend)[r] = RInt(10)

Rescaled == InvertCriteria \cup {PositiveTrend}

\* C9: for every invert or positive-trend criterion, when all scenarios have
\* the same raw value in the matrix Run Model reads (a single scenario
\* included), every normalized output is 10 if that value is not 0 and 0 if
\* it is 0.
C9_TiePolicy ==
    RunModelDone =>
        \A c \in Rescaled :
            (Selected(c) /\ AllEqual(Stored(c))) =>
                \A r \in 1..Len(scaled_criteria_df) :
                    Scaled(c)[r] = IF Stored(c)[1] = RInt(0) THEN RInt(0) ELSE RInt(10)

C9_Witness ==
    /\ RunModelDone
    /\ Len(scaled_criteria_df) = 3
    /\ \E c, d \in Rescaled :
          /\ Selected(c) /\ Selected(d)
          /\ AllEqual(Stored(c)) /\ Stored(c)[1] = RInt(0)
          /\ AllEqual(Stored(d)) /\ Stored(d)[1] # RInt(0)
          /\ Scaled(c)[3] = RInt(0)
          /\ Scaled(d)[3] = RInt(10)

AllZero(col) == \A i \in 1..Len(col) : col[i] = RInt(0)

\* C10: after Run Model every normalized value of an invert or
\* positive-trend criterion lies in [1, 10], except when all scenarios have
\* raw value 0 on that criterion in the matrix Run Model reads: then every
\* value is 0.
C10_ScaledRange ==
    RunModelDone =>
        \A c \in Rescaled :
            Selected(c) =>
                \A r \in 1..Len(scaled_criteria_df) :
                    IF AllZero(Stored(c))
                    THEN Scaled(c)[r] = RInt(0)
                    ELSE RLe(RInt(1), Scaled(c)[r]) /\ RLe(Scaled(c)[r], RInt(10))

C10_Witness ==
    /\ RunModelDone
    /\ \E c, d \in Rescaled :
          /\ Selected(c) /\ Selected(d)
          /\ AllZero(Stored(c))
          /\ \E r \in 1..Len(scaled_criteria_df) :
                /\ Scaled(c)[r] = RInt(0)
                /\ RLt(RInt(1), Scaled(d)[r])
                /\ RLt(Scaled(d)[r], RInt(10))
          /\ \E r \in 1..Len(scaled_criteria_df) : Scaled(d)[r] = RInt(1)

\* The criteria of polarity "scale": the 1-10 criteria that Run Model does
\* not rescale.
ScalePolarity == scale_criteria(revision) \ Rescaled

InScale(col) ==
    \A i \in 1..Len(col) :
        ~IsNaN(col[i]) /\ RLe(RInt(1), col[i]) /\ RLe(col[i], RInt(10))

\* C11: Run Model leaves every scale criterion column as it is in the matrix
\* it reads, and when the entered values of a scale criterion are already in
\* [1, 10] the value in the normalized results table equals the entered
\* value for every scenario.
C11_ScalePassThrough ==
    RunModelDone =>
        \A c \in ScalePolarity :
            Selected(c) =>
                /\ Scaled(c) = Stored(c)
                /\ InScale(Entered(c)) => Scaled(c) = Entered(c)

C11_Witness ==
    /\ RunModelDone
    /\ Len(scaled_criteria_df) = 3
    /\ Selected(Technical) /\ Selected(PositiveTrend)
    /\ InScale(Entered(Technical))
    /\ Scaled(Technical) = Entered(Technical)
    /\ Scaled(PositiveTrend) # Stored(PositiveTrend)

Totals == [r \in 1..Len(scaled_criteria_df) |-> scaled_criteria_df[r].Total]

Normalized == [r \in 1..Len(scaled_criteria_df) |-> scaled_criteria_df[r].Normalized]

Ranks == [r \in 1..Len(scaled_criteria_df) |-> scaled_criteria_df[r].Rank]

\* C12: each scenario's Total Score is the sum of its normalized values over
\* the selected criteria; the Normalized Score is
\* 1 + 9*(total - min)/(max - min) when the totals are not all equal (the
\* lowest total gets 1, the highest 10) and 5 for every scenario when they
\* are all equal.
C12_TotalAndNormalizedScore ==
    RunModelDone =>
        \A r \in 1..Len(scaled_criteria_df) :
            /\ Totals[r] =
                  AddAll([k \in 1..Len(selected_criteria) |->
                             Scaled(selected_criteria[k])[r]])
            /\ IF AllEqual(Totals)
               THEN Normalized[r] = RInt(5)
               ELSE /\ Normalized[r] = RAdd(RInt(1), Share(Totals, Totals[r]))
                    /\ Totals[r] = Least(Totals) => Normalized[r] = RInt(1)
                    /\ Totals[r] = Greatest(Totals) => Normalized[r] = RInt(10)

C12_Witness ==
    /\ RunModelDone
    /\ Len(selected_criteria) = 2
    /\ Len(scaled_criteria_df) = 3
    /\ ~AllEqual(Totals)
    /\ \E r \in 1..3 : RLt(RInt(1), Normalized[r]) /\ RLt(Normalized[r], RInt(10))
    /\ \A r \in 1..3 : \A c \in Range(selected_criteria) : Scaled(c)[r] # RInt(0)

C12_TieWitness ==
    /\ RunModelDone
    /\ Len(scaled_criteria_df) = 3
    /\ AllEqual(Totals)
    /\ Normalized[3] = RInt(5)

TiedWith(r) == {q \in 1..Len(scaled_criteria_df) : Normalized[q] = Normalized[r]}

\* q has the next lower distinct score after r
NextLower(r, q) ==
    /\ RLt(Normalized[q], Normalized[r])
    /\ ~\E t \in 1..Len(scaled_criteria_df) :
            RLt(Normalized[q], Normalized[t]) /\ RLt(Normalized[t], Normalized[r])

\* C13: ranking is descending on Normalized Score with 'min' tie handling:
\* equal scores get equal ranks, a greater score gets a smaller rank, the
\* greatest score gets rank 1, and the rank of the next lower distinct score
\* is the tied group's rank plus the size of the tied group; equivalently
\* the rank is 1 plus the number of scenarios with a strictly greater score.
C13_MinRanking ==
    RunModelDone =>
        \A r \in 1..Len(scaled_criteria_df) :
            /\ Ranks[r] =
                  1 + Cardinality({q \in 1..Len(scaled_criteria_df) :
                                      RLt(Normalized[r], Normalized[q])})
            /\ Normalized[r] = Greatest(Normalized) => Ranks[r] = 1
            /\ \A q \in 1..Len(scaled_criteria_df) :
                  /\ Normalized[q] = Normalized[r] => Ranks[q] = Ranks[r]
                  /\ RLt(Normalized[q], Normalized[r]) => Ranks[q] > Ranks[r]
                  /\ NextLower(r, q) =>
                        Ranks[q] = Ranks[r] + Cardinality(TiedWith(r))

C13_Witness ==
    /\ RunModelDone
    /\ Len(scaled_criteria_df) = 3
    /\ \E r, q, t \in 1..3 :
          /\ r # q
          /\ Normalized[r] = Normalized[q]
          /\ RLt(Normalized[t], Normalized[r])
          /\ Ranks[r] = 1 /\ Ranks[q] = 1 /\ Ranks[t] = 3

RowOrders(n) ==
    {p \in [1..n -> 1..n] : \A i, j \in 1..n : i # j => p[i] # p[j]}

\* The rows of a table in the order p
Permuted(table, p) == [i \in 1..Len(table) |-> table[p[i]]]

\* C14: for every stored score matrix and every permutation of its scenario
\* rows, Run Model on the permuted matrix gives each named scenario the same
\* Total Score, Normalized Score and Rank as on the matrix as stored.
C14_PermutationInvariant ==
    RunModelDone =>
        \A p \in RowOrders(Len(edited_criteria_df)) :
            LET again == ScaledTable(Permuted(edited_criteria_df, p), selected_criteria)
            IN  \A i \in 1..Len(again) :
                    /\ again[i].Scenario = scaled_criteria_df[p[i]].Scenario
                    /\ again[i].Total = scaled_criteria_df[p[i]].Total
                    /\ again[i].Normalized = scaled_criteria_df[p[i]].Normalized
                    /\ again[i].Rank = scaled_criteria_df[p[i]].Rank

C14_Witness ==
    /\ RunModelDone
    /\ Len(scaled_criteria_df) = 3
    /\ Len(selected_criteria) = 2
    /\ \E r, q \in 1..3 : r # q /\ Ranks[r] = Ranks[q]
    /\ \E r, q \in 1..3 : Totals[r] # Totals[q]
    /\ \A c \in Range(selected_criteria) : ~AllEqual(Stored(c))

CriteriaStored == pc \in {"run", "done"} /\ selected_criteria # <<>>

\* C16: a criterion cell that is missing or non-numeric in the editor is
\* replaced by the neutral score 5 in the matrix that is normalized.
C16_MissingCellIsFive ==
    CriteriaStored =>
        \A r \in 1..Len(criteria_editor) : \A c \in Range(selected_criteria) :
            IsNaN(criteria_editor[r].vals[c]) =>
                edited_criteria_df[r].vals[c] = RInt(5)

\* The criterion is constrained and clipped to [1, 10] where the editor's
\* table is converted.
ClippedAtInput(c) == c \in scale_criteria(revision)

\* The criterion is min-max rescaled by Run Model.
RescaledByRunModel(c) == c \in Range(criteria_to_normalize)

\* C19: every criterion is treated with one polarity at every step: no
\* selected criterion is both clipped to [1, 10] as a scale criterion at the
\* input boundary and min-max rescaled as an invert or positive-trend
\* criterion by Run Model.
C19_OnePolarity ==
    RunModelDone =>
        \A c \in Range(selected_criteria) :
            ~(ClippedAtInput(c) /\ RescaledByRunModel(c))

\* A cell of the table is missing: a "Scenario" cell or a criterion cell.
HasMissing(table) ==
    \E r \in 1..Len(table) :
        \/ table[r].Scenario = MissingName
        \/ \E c \in DOMAIN table[r].vals : table[r].vals[c] = NaN

RunModelClicked == pc = "done" /\ (run_status # "none" \/ raised)

NumericResult(row) ==
    /\ ~IsNaN(row.Daily) /\ ~IsNaN(row.Annual)
    /\ ~IsNaN(row.SavingKg) /\ ~IsNaN(row.SavingPct)

NumericScores(table) ==
    \A r \in 1..Len(table) :
        /\ \A c \in DOMAIN table[r].vals : ~IsNaN(table[r].vals[c])
        /\ ~IsNaN(table[r].Total)
        /\ ~IsNaN(table[r].Normalized)
        /\ table[r].Rank \in 1..Len(table)

FreshBauTable == BauTable(revision, emission_factors, bau_data)

FreshResults ==
    [k \in 1..Len(scenario_editor) |->
        ScenarioResult(FreshBauTable, TotalAnnual(revision, FreshBauTable),
                       CoerceColumn(scenario_editor[k]))]

FreshScaled ==
    ScaledTable(CoerceCriteria(revision, criteria_editor), selected_criteria)

C20_CustomCriteriaScored ==
    CriteriaStored =>
        \A i \in DOMAIN other_criteria :
            /\ other_criteria[i].name \in Range(selected_criteria)
            /\ \A r \in 1..Len(edited_criteria_df) :
                  other_criteria[i].name \in DOMAIN edited_criteria_df[r].vals

\* =========================================== further emissions properties
Uniform(cells, p) == \A i \in 1..Len(cells) : cells[i] = p

\* C24: when the baseline annual emissions are not 0 and a scenario has the
\* same percentage p for every item, its saving percentage is 100 - p and
\* its saving in kg is (100 - p)/100 of the baseline annual emissions.
C24_UniformPercentSaving ==
    (ScenariosDone /\ total_annual_bau # RInt(0)) =>
        \A k \in 1..Len(results) : \A p \in PctCells \ {NaN} :
            Uniform(scenario_editor[k].cells, p) =>
                /\ results[k].SavingPct = RSub(RInt(100), p)
                /\ results[k].SavingKg =
                      RDiv(RMul(RSub(RInt(100), p), total_annual_bau), RInt(100))

C24_Witness ==
    /\ ScenariosDone
    /\ total_annual_bau # RInt(0)
    /\ Len(bau_table) = 2
    /\ bau_table[1].Daily # RInt(0) /\ bau_table[2].Daily # RInt(0)
    /\ Uniform(scenario_editor[1].cells, RInt(-50))
    /\ results[1].SavingPct = RInt(150)

NonNegative(x) == ~IsNaN(x) /\ RLe(RInt(0), x)

NonNegativeTable(table) ==
    \A i \in 1..Len(table) : NonNegative(table[i].Usage) /\ NonNegative(table[i].Factor)

AtMostHundred(cells) == \A i \in 1..Len(cells) : RLe(cells[i], RInt(100))

AtLeastHundred(cells) == \A i \in 1..Len(cells) : RLe(RInt(100), cells[i])

\* C25: with non-negative usages and emission factors, a scenario whose
\* every percentage is at most 100 has saving (kg and %) >= 0, and one
\* whose every percentage is at least 100 has saving (kg and %) <= 0.
C25_SavingSign ==
    (ScenariosDone /\ NonNegativeTable(bau_table)) =>
        \A k \in 1..Len(results) :
            /\ AtMostHundred(edited_scenario_df[k].cells) =>
                  /\ RLe(RInt(0), results[k].SavingKg)
                  /\ RLe(RInt(0), results[k].SavingPct)
            /\ AtLeastHundred(edited_scenario_df[k].cells) =>
                  /\ RLe(results[k].SavingKg, RInt(0))
                  /\ RLe(results[k].SavingPct, RInt(0))

C25_Witness ==
    /\ ScenariosDone
    /\ NonNegativeTable(bau_table)
    /\ Len(bau_table) = 2
    /\ bau_table[1].Daily # RInt(0)
    /\ AtMostHundred(edited_scenario_df[1].cells)
    /\ edited_scenario_df[1].cells[1] # edited_scenario_df[1].cells[2]
    /\ RLt(RInt(0), results[1].SavingKg)
    /\ RLt(RInt(0), results[1].SavingPct)

AllMissing(cells) == \A i \in 1..Len(cells) : IsNaN(cells[i])

\* C30: a missing or non-numeric percentage cell is treated as 100: it is
\* 100 in the converted table, a scenario with at least one such cell has
\* the emissions of the same scenario with 100 entered there, and a scenario
\* whose cells are all missing has annual emissions equal to the baseline
\* annual emissions and saving 0.
C30_MissingPercentIsHundred ==
    ScenariosDone =>
        \A k \in 1..Len(results) :
            /\ \A i \in 1..Len(scenario_editor[k].cells) :
                  IsNaN(scenario_editor[k].cells[i]) =>
                      edited_scenario_df[k].cells[i] = RInt(100)
            /\ results[k].Daily =
                  ExpectedDaily(bau_table,
                      [i \in 1..Len(bau_table) |->
                          IF IsNaN(scenario_editor[k].cells[i]) THEN RInt(100)
                          ELSE scenario_editor[k].cells[i]])
            /\ AllMissing(scenario_editor[k].cells) =>
                  /\ results[k].Annual = total_annual_bau
                  /\ results[k].SavingKg = RInt(0)
                  /\ results[k].SavingPct = RInt(0)

C30_Witness ==
    /\ ScenariosDone
    /\ Len(bau_table) = 2
    /\ bau_table[1].Daily # RInt(0) /\ bau_table[2].Daily # RInt(0)
    /\ total_annual_bau # RInt(0)
    /\ AllMissing(scenario_editor[1].cells)
    /\ results[1].Annual = total_annual_bau

\* ============================================ further criteria properties
\* rank(method='min', ascending=False) applied to the Total Score column
RankFromTotals(r) ==
    1 + Cardinality({q \in 1..Len(scaled_criteria_df) : RLt(Totals[r], Totals[q])})

\* C26: the rank computed from Normalized Score equals, for every scenario,
\* the rank the same 'min' descending ranking gives from Total Score; the
\* second pass keeps the order and the tie groups of the scenarios.
C26_RankFromTotals ==
    RunModelDone =>
        \A r \in 1..Len(scaled_criteria_df) :
            /\ Ranks[r] = RankFromTotals(r)
            /\ \A q \in 1..Len(scaled_criteria_df) :
                  /\ RLt(Normalized[r], Normalized[q]) <=> RLt(Totals[r], Totals[q])
                  /\ Normalized[r] = Normalized[q] <=> Totals[r] = Totals[q]

C26_Witness ==
    /\ RunModelDone
    /\ Len(scaled_criteria_df) = 3
    /\ Len(selected_criteria) = 2
    /\ \E r, q, t \in 1..3 :
          /\ r # q
          /\ Totals[r] = Totals[q]
          /\ RLt(Totals[r], Totals[t])
          /\ Ranks[t] = 1 /\ Ranks[r] = 2 /\ Ranks[q] = 2

FirstTop == CHOOSE r \in 1..Len(scaled_criteria_df) :
                /\ Ranks[r] = 1
                /\ \A q \in 1..Len(scaled_criteria_df) : Ranks[q] = 1 => r <= q

\* C27: after every Run Model at least one scenario has rank 1, all ranks
\* lie in 1..N for N scenarios, and the scenario announced as top-ranked has
\* rank 1 and the maximum Total Score; when several scenarios share rank 1
\* it is the first of them in table row order.
C27_TopScenario ==
    RunModelDone =>
        /\ \E r \in 1..Len(scaled_criteria_df) : Ranks[r] = 1
        /\ \A r \in 1..Len(scaled_criteria_df) : Ranks[r] \in 1..Len(scaled_criteria_df)
        /\ top_scenario = <<scaled_criteria_df[FirstTop].Scenario>>
        /\ Totals[FirstTop] = Greatest(Totals)

C27_Witness ==
    /\ RunModelDone
    /\ Len(scaled_criteria_df) = 3
    /\ Ranks[1] = 3 /\ Ranks[2] = 1 /\ Ranks[3] = 1
    /\ top_scenario = <<scaled_criteria_df[2].Scenario>>

\* C28: Run Model normalizes a copy of the score matrix: after Run Model the
\* matrix stored in the session state holds the cell values it held before,
\* those the editor returned after coercion, so that Run Model over the
\* stored matrix gives the displayed table again.
C28_RunModelKeepsStored ==
    RunModelDone =>
        /\ edited_criteria_df = CoerceCriteria(revision, criteria_editor)
        /\ scaled_criteria_df = ScaledTable(edited_criteria_df, selected_criteria)

C28_Witness ==
    /\ RunModelDone
    /\ Len(edited_criteria_df) = 2
    /\ \E crit \in Range(selected_criteria) :
          /\ crit \in Range(criteria_to_normalize)
          /\ Scaled(crit) # Stored(crit)
          /\ Stored(crit) = Entered(crit)

\* ------------------------------------------- scenario names specification
\* The scripts with scenario names as the user may leave them in the
\* description editor, whose "Scenario" column is an editable text column:
\* a default name, the same with " (%)" typed after it, the word None, or a
\* cleared cell.
MaxNamed == 2

TypedNames ==
    {DefaultScenarioName(1), DefaultScenarioName(2),
     Append(DefaultScenarioName(1), PctSuffix), <<"None">>, MissingName}

NamedDescs == UNION {SeqsOfLen(TypedNames, n) : n \in 1..MaxNamed}

InitNames ==
    /\ revision \in {"cf_emissions", "test"}
    /\ pc = "bau"
    /\ \E usage \in UsageVals : bau_data = WithUsage(DefaultTable, 1, usage)
    /\ bau_data_local = bau_data
    /\ emission_factors = default_factors
    /\ scenario_desc \in NamedDescs
    /\ bau_table = <<>>
    /\ total_daily_bau = RInt(0)
    /\ total_annual_bau = RInt(0)
    /\ scenario_editor = <<>>
    /\ edited_scenario_df = <<>>
    /\ results = <<>>
    /\ NoCriteria
    /\ raised = FALSE

NextNames == ComputeBaseline \/ ComputeScenarios

SpecNames == InitNames /\ [][NextNames]_vars

\* ================================================ properties of the items
UniqueItems(rows) ==
    \A i, j \in 1..Len(rows) : i # j => rows[i].Item # rows[j].Item

\* C21: item names are a unique key: after any sequence of reruns and
\* custom-item additions no two rows of the BAU item table have the same
\* item name.
C21_ItemNamesUnique == UniqueItems(bau_data) /\ UniqueItems(bau_table)

\* The same for cf_emissions.py alone, where a known name is refused.
C21_UniqueInCfEmissions ==
    revision = "cf_emissions" => UniqueItems(bau_data) /\ UniqueItems(bau_table)

\* C22: an item's emission factor is immutable once assigned: no script run
\* changes the factor recorded for a name that had one, and the default
\* items keep the factors they start with.
C22_FactorImmutable ==
    [][\A n \in DOMAIN emission_factors' :
          /\ n \in default_items => emission_factors'[n] = default_factors[n]
          /\ revision # "bau_emissions" /\ n \in DOMAIN emission_factors
                => emission_factors'[n] = emission_factors[n]]_vars

\* The same for cf_emissions.py alone.
C22_ImmutableInCfEmissions ==
    [][revision = "cf_emissions" =>
          \A n \in DOMAIN emission_factors :
              /\ n \in DOMAIN emission_factors'
              /\ emission_factors'[n] = emission_factors[n]]_vars

ItemColumn(rows) == [i \in 1..Len(rows) |-> rows[i].Item]

\* C29: in test.py the summary table, the BAU totals and the scenario
\* percentage table of a script run cover every row of the stored BAU table,
\* the rows appended by 'Get Emission Factors for Custom Items' in that run
\* included.
C29_NewItemsIncluded ==
    (revision = "test" /\ bau_table # <<>>) =>
        /\ ItemColumn(bau_table) = ItemColumn(bau_data)
        /\ total_daily_bau = TotalDaily(BauTable(revision, emission_factors, bau_data))
        /\ total_annual_bau =
              TotalAnnual(revision, BauTable(revision, emission_factors, bau_data))
        /\ \A k \in 1..Len(scenario_editor) :
              Len(scenario_editor[k].cells) = Len(bau_data)

\* ======================================== properties of the scenario names
UniqueScenarios(rows) ==
    \A j, k \in 1..Len(rows) : j # k => rows[j].Scenario # rows[k].Scenario

\* C23: scenario names are unique per run: the scenario results table never
\* has two rows with the same scenario name, and the name of each result
\* row is the name entered for that scenario in the description table
\* (for description tables with a name in every row).
C23_ScenarioNamesUnique ==
    (pc = "done" /\ results # <<>> /\ MissingName \notin Range(scenario_desc)) =>
        /\ UniqueScenarios(results)
        /\ Len(results) = Len(scenario_desc)
        /\ \A k \in 1..Len(results) : results[k].Scenario = scenario_desc[k]

\* The same when the description table holds the names it is created with.
C23_DefaultNamesKept ==
    (pc = "done" /\ \A k \in 1..Len(scenario_desc) :
                       scenario_desc[k] = DefaultScenarioName(k)) =>
        /\ ~raised
        /\ UniqueScenarios(results)
        /\ Len(results) = Len(scenario_desc)
        /\ \A k \in 1..Len(results) : results[k].Scenario = scenario_desc[k]

====
